---- MODULE Spec2Model ----
(***************************************************************************)
(* The flux HTTP API client of http/client.go: the public operations, the  *)
(* three request primitives (get, post/postWithBody, postWithResp) and     *)
(* executeRequest, with the transport, the credential and the response     *)
(* body stream as the environment.                                         *)
(*                                                                         *)
(* A call runs in three steps: the public operation builds the request     *)
(* (URL, body, credential), executeRequest sends it and classifies the     *)
(* status, and the primitive consumes the response and returns.            *)
(***************************************************************************)
EXTENDS Integers, Sequences, FiniteSets, TLC

VARIABLES
    client,   \* the client struct: client (transport handle), token, router, endpoint
    pc,       \* "idle" | "sending" | "received" | "done"
    call,     \* the arguments of the call in progress (or of the last call)
    req,      \* the *http.Request built by the primitive
    tresp,    \* the *http.Response object the transport produced, with its body stream
    ex,       \* what executeRequest returned: (resp, err)
    events,   \* the collaborators' operations this call invoked, in order
    destVal,  \* the caller's destination value (var res / var resp)
    result,   \* the error the primitive returned
    earlier   \* TRUE once some call on this client has returned

vars == <<client, pc, call, req, tresp, ex, events, destVal, result, earlier>>

----------------------------------------------------------------------------
(* Bounds of the model *)

MaxBody == 2        \* longest response body, in bytes
MaxSpecs == 2       \* longest ReleaseJobParams.ServiceSpecs
MaxExcludes == 1    \* longest ReleaseJobParams.Excludes

StatusOK == 200

RECURSIVE SeqsUpTo(_, _)
SeqsUpTo(S, n) ==
    IF n = 0 THEN {<<>>}
    ELSE LET shorter == SeqsUpTo(S, n - 1)
         IN shorter \cup {Append(s, x) : s \in {t \in shorter : Len(t) = n - 1}, x \in S}

\* Bytes of a response body: whitespace, a JSON digit, a byte no JSON value starts with.
Bytes == {" ", "1", "x"}
Bodies == SeqsUpTo(Bytes, MaxBody)

Ids == {"a", "b"}
Kinds == {"plan", "execute"}
ImageSpecs == {"img"}

StatusCodes == {StatusOK, 204, 404, 500}
StatusText(code) ==
    CASE code = StatusOK -> "200 OK"
      [] code = 204 -> "204 No Content"
      [] code = 404 -> "404 Not Found"
      [] OTHER -> "500 Internal Server Error"

AllRoutes == {"ListServices", "ListImages", "PostRelease", "GetRelease", "Automate",
              "Deautomate", "Lock", "Unlock", "History", "GetConfig", "SetConfig",
              "GenerateDeployKeys", "Status"}
\* A router that registers only some of the routes.
PartialRoutes == AllRoutes \ {"ListServices", "PostRelease", "SetConfig", "Lock", "Status"}
Routers == {AllRoutes, PartialRoutes}

----------------------------------------------------------------------------
(* Values *)

ZeroValue == <<>>

NoCause == [kind |-> "none", StatusCode |-> 0, Status |-> "", Body |-> <<>>]
NoErr == [ctx |-> <<>>, cause |-> NoCause]
Err(kind) == [ctx |-> <<>>, cause |-> [NoCause EXCEPT !.kind = kind]]

\* errors.Wrap: the cause is kept, one context message is put in front.
Wrap(err, msg) == [err EXCEPT !.ctx = <<msg>> \o @]

NoURL == [endpoint |-> "", route |-> "", query |-> <<>>]
NoReq == [method |-> "", url |-> NoURL, payload |-> "none", auth |-> ""]
NoResp == [present |-> FALSE, StatusCode |-> 0, Status |-> "", data |-> <<>>,
           readErr |-> FALSE, closed |-> FALSE]
NoEx == [resp |-> FALSE, err |-> NoErr]
NoInput == [ImageSpec |-> "", Kind |-> "", ServiceSpecs |-> <<>>, Excludes |-> <<>>]
NoCall == [op |-> "", prim |-> "", dest |-> FALSE, route |-> "", body |-> "none",
           params |-> <<>>, input |-> NoInput]

NewClient(c, router, endpoint, t) ==
    [client |-> c, token |-> t, router |-> router, endpoint |-> endpoint]

----------------------------------------------------------------------------
(* Library functions the client calls *)

isSpace(b) == b = " "

RECURSIVE TrimLeft(_)
TrimLeft(s) == IF s # <<>> /\ isSpace(Head(s)) THEN TrimLeft(Tail(s)) ELSE s

RECURSIVE TrimRight(_)
TrimRight(s) ==
    IF s # <<>> /\ isSpace(s[Len(s)]) THEN TrimRight(SubSeq(s, 1, Len(s) - 1)) ELSE s

\* strings.TrimSpace
TrimSpace(s) == TrimRight(TrimLeft(s))

\* The leading run of digits of s: the literal the JSON scanner reads.
RECURSIVE Literal(_)
Literal(s) == IF s # <<>> /\ Head(s) = "1" THEN <<"1">> \o Literal(Tail(s)) ELSE <<>>

\* ioutil.ReadAll on a body stream: the bytes delivered, and the stream's error if any.
ReadAll(body) ==
    [buf |-> body.data, err |-> IF body.readErr THEN Err("read") ELSE NoErr]

\* json.Unmarshal(data, v): the whole input must be one JSON value, with
\* white space allowed around it; nothing is stored when it is not.
Unmarshal(data) ==
    LET t == TrimLeft(data)
        lit == Literal(t)
        rest == SubSeq(t, Len(lit) + 1, Len(t))
    IN IF lit # <<>> /\ TrimLeft(rest) = <<>>
       THEN [err |-> NoErr, value |-> lit]
       ELSE [err |-> Err("syntax"), value |-> ZeroValue]

\* json.NewDecoder(body).Decode(v): reads the FIRST JSON value of the stream.
\* No value before the end of the stream is io.EOF; a literal is complete when
\* a byte follows it or the stream ends cleanly; what follows it is not looked at.
DecoderDecode(body) ==
    LET t == TrimLeft(body.data)
        lit == Literal(t)
    IN IF t = <<>>
       THEN [err |-> IF body.readErr THEN Err("read") ELSE Err("EOF"), value |-> ZeroValue]
       ELSE IF lit = <<>>
       THEN [err |-> Err("syntax"), value |-> ZeroValue]
       ELSE IF Len(lit) = Len(t) /\ body.readErr
       THEN [err |-> Err("read"), value |-> ZeroValue]
       ELSE [err |-> NoErr, value |-> lit]

\* json.Marshal of the request body: "bad" stands for a value it rejects.
Marshal(body) ==
    IF body = "bad" THEN [err |-> Err("encode"), bytes |-> "none"]
    ELSE [err |-> NoErr, bytes |-> "json"]

\* http.NewRequest(method, u.String(), payload); reqOK is whether it accepts the URL.
NewRequest(method, u, payload, reqOK) ==
    IF reqOK THEN [err |-> NoErr,
                   req |-> [method |-> method, url |-> u, payload |-> payload, auth |-> ""]]
    ELSE [err |-> Err("request"), req |-> NoReq]

\* token.Set(req): the credential attaches itself to the request.
tokenSet(t, r) == [r EXCEPT !.auth = t]

\* makeURL(endpoint, router, route, queryParams...): the route resolver.
makeURL(endpoint, router, route, queryParams) ==
    IF route \notin router \/ Len(queryParams) % 2 = 1
    THEN [err |-> Err("route"), u |-> NoURL]
    ELSE [err |-> NoErr, u |-> [endpoint |-> endpoint, route |-> route, query |-> queryParams]]

----------------------------------------------------------------------------
(* The request primitives.  Each operator takes the receiver c and returns *)
(* it with its results, as a method on *client can write to c.             *)

\* Faulty variants of attach: the credential is never attached; attaching it uses
\* up the client's token.
attach_none(c, r) == [c |-> c, req |-> r, ev |-> <<>>]

attach_consumeToken(c, r) ==
    [c |-> [c EXCEPT !.token = ""], req |-> tokenSet(c.token, r), ev |-> <<"Set">>]

\* c.token.Set(req), as get and postWithResp call it on the request they built.
attach(c, r) == [c |-> c, req |-> tokenSet(c.token, r), ev |-> <<"Set">>]

\* get, up to the call of executeRequest.
get_request(c, route, queryParams, reqOK) ==
    LET m == makeURL(c.endpoint, c.router, route, queryParams)
        n == NewRequest("GET", m.u, "none", reqOK)
    IN IF m.err # NoErr
       THEN [c |-> c, err |-> Wrap(m.err, "constructing URL"), req |-> NoReq, ev |-> <<>>]
       ELSE IF n.err # NoErr
       THEN [c |-> c, err |-> Wrap(n.err, "constructing request"), req |-> NoReq, ev |-> <<>>]
       ELSE LET a == attach(c, n.req)
            IN [c |-> a.c, err |-> NoErr, req |-> a.req, ev |-> a.ev]

\* Faulty variant of postWithResp_request: the body is serialized before the URL is resolved.
postWithResp_request_marshalFirst(c, route, body, queryParams, reqOK) ==
    LET m == makeURL(c.endpoint, c.router, route, queryParams)
        b == IF body # "none" THEN Marshal(body) ELSE [err |-> NoErr, bytes |-> "none"]
        n == NewRequest("POST", m.u, b.bytes, reqOK)
    IN IF b.err # NoErr
       THEN [c |-> c, err |-> Wrap(b.err, "encoding request body"), req |-> NoReq, ev |-> <<>>]
       ELSE IF m.err # NoErr
       THEN [c |-> c, err |-> Wrap(m.err, "constructing URL"), req |-> NoReq, ev |-> <<>>]
       ELSE IF n.err # NoErr
       THEN [c |-> c, err |-> Wrap(n.err, "constructing request"), req |-> NoReq, ev |-> <<>>]
       ELSE LET a == attach(c, n.req)
            IN [c |-> a.c, err |-> NoErr, req |-> a.req, ev |-> a.ev]

\* postWithResp, up to the call of executeRequest.
postWithResp_request(c, route, body, queryParams, reqOK) ==
    LET m == makeURL(c.endpoint, c.router, route, queryParams)
        b == IF body # "none" THEN Marshal(body) ELSE [err |-> NoErr, bytes |-> "none"]
        n == NewRequest("POST", m.u, b.bytes, reqOK)
    IN IF m.err # NoErr
       THEN [c |-> c, err |-> Wrap(m.err, "constructing URL"), req |-> NoReq, ev |-> <<>>]
       ELSE IF b.err # NoErr
       THEN [c |-> c, err |-> Wrap(b.err, "encoding request body"), req |-> NoReq, ev |-> <<>>]
       ELSE IF n.err # NoErr
       THEN [c |-> c, err |-> Wrap(n.err, "constructing request"), req |-> NoReq, ev |-> <<>>]
       ELSE LET a == attach(c, n.req)
            IN [c |-> a.c, err |-> NoErr, req |-> a.req, ev |-> a.ev]

\* Faulty variant of doRequest: a failed exchange is tried once more.
doRequest_retry(c, r, o) ==
    [fail |-> o.fail,
     made |-> IF o.fail THEN NoResp
              ELSE [present |-> TRUE, StatusCode |-> o.StatusCode, Status |-> o.Status,
                    data |-> o.data, readErr |-> o.readErr, closed |-> FALSE],
     ev |-> IF o.fail THEN <<"Do", "Do">> ELSE <<"Do">>]

\* resp, err := c.client.Do(req): one exchange with the transport, whose outcome
\* is o: it fails, or it produces a response with an unread, open body.
doRequest(c, r, o) ==
    [fail |-> o.fail,
     made |-> IF o.fail THEN NoResp
              ELSE [present |-> TRUE, StatusCode |-> o.StatusCode, Status |-> o.Status,
                    data |-> o.data, readErr |-> o.readErr, closed |-> FALSE],
     ev |-> <<"Do">>]

\* Faulty variant of isOK: every 2xx status counts as success.
isOK_any2xx(code) == code >= 200 /\ code < 300

\* case http.StatusOK
isOK(code) == code = StatusOK

\* executeRequest: c.client.Do(req), then the switch on the status code.
executeRequest(c, r, o) ==
    LET d == doRequest(c, r, o)
    IN IF d.fail
       THEN [c |-> c, resp |-> FALSE,
             err |-> Wrap(Err("transport"), "executing HTTP request"),
             tresp |-> d.made, ev |-> d.ev]
       ELSE IF isOK(d.made.StatusCode)
       THEN [c |-> c, resp |-> TRUE, err |-> NoErr, tresp |-> d.made, ev |-> d.ev]
       ELSE LET buf == ReadAll(d.made).buf
            IN [c |-> c, resp |-> FALSE,
                err |-> [ctx |-> <<>>,
                         cause |-> [kind |-> "APIError",
                                    StatusCode |-> d.made.StatusCode,
                                    Status |-> d.made.Status,
                                    Body |-> TrimSpace(buf)]],
                tresp |-> d.made, ev |-> d.ev]

\* get, from the return of executeRequest (e) to its own return; defer resp.Body.Close()
\* runs at the return.  d is the caller's destination value.
get_response(c, e, body, d) ==
    IF e.err # NoErr
    THEN [c |-> c, err |-> Wrap(e.err, "executing HTTP request"), tresp |-> body,
          dest |-> d, ev |-> <<>>]
    ELSE LET dec == DecoderDecode(body)
             shut == [body EXCEPT !.closed = TRUE]
         IN IF dec.err # NoErr
            THEN [c |-> c, err |-> Wrap(dec.err, "decoding response from server"),
                  tresp |-> shut, dest |-> d, ev |-> <<"Decode", "Close">>]
            ELSE [c |-> c, err |-> NoErr, tresp |-> shut, dest |-> dec.value,
                  ev |-> <<"Decode", "Close">>]

\* Faulty variant of isEmpty: the empty body is not told apart.
isEmpty_never(respBytes) == FALSE

\* len(respBytes) <= 0
isEmpty(respBytes) == Len(respBytes) <= 0

\* Faulty variant of unmarshalDest: without a destination the body is not deserialized.
unmarshalDest_skipNil(respBytes, d, hasDest) ==
    IF hasDest
    THEN LET dec == Unmarshal(respBytes)
         IN [err |-> dec.err, dest |-> IF dec.err = NoErr THEN dec.value ELSE d,
             ev |-> <<"Decode">>]
    ELSE [err |-> NoErr, dest |-> d, ev |-> <<>>]

\* json.Unmarshal(respBytes, &dest): dest is the interface value postWithResp was
\* given.  Holding the caller's pointer (hasDest), the value is stored through it;
\* holding nil, the value is stored in the local interface and dropped.  d is the
\* caller's destination value.
unmarshalDest(respBytes, d, hasDest) ==
    LET dec == Unmarshal(respBytes)
    IN [err |-> dec.err,
        dest |-> IF dec.err = NoErr /\ hasDest THEN dec.value ELSE d,
        ev |-> <<"Decode">>]

\* postWithResp, from the return of executeRequest to its own return.
postWithResp_response(c, e, body, d, hasDest) ==
    IF e.err # NoErr
    THEN [c |-> c, err |-> Wrap(e.err, "executing HTTP request"), tresp |-> body,
          dest |-> d, ev |-> <<>>]
    ELSE LET rd == ReadAll(body)
             shut == [body EXCEPT !.closed = TRUE]
             dec == unmarshalDest(rd.buf, d, hasDest)
         IN IF rd.err # NoErr
            THEN [c |-> c, err |-> Wrap(rd.err, "decoding response from server"),
                  tresp |-> shut, dest |-> d, ev |-> <<"Close">>]
            ELSE IF isEmpty(rd.buf)
            THEN [c |-> c, err |-> NoErr, tresp |-> shut, dest |-> d, ev |-> <<"Close">>]
            ELSE IF dec.err # NoErr
            THEN [c |-> c, err |-> Wrap(dec.err, "decoding response from server"),
                  tresp |-> shut, dest |-> dec.dest, ev |-> dec.ev \o <<"Close">>]
            ELSE [c |-> c, err |-> NoErr, tresp |-> shut, dest |-> dec.dest,
                  ev |-> dec.ev \o <<"Close">>]

\* The arguments a public operation hands to its primitive.
get(route, queryParams) ==
    [prim |-> "get", dest |-> TRUE, route |-> route, body |-> "none", params |-> queryParams]

postWithResp(dest, route, body, queryParams) ==
    [prim |-> "post", dest |-> dest, route |-> route, body |-> body, params |-> queryParams]

postWithBody(route, body, queryParams) == postWithResp(FALSE, route, body, queryParams)

post(route, queryParams) == postWithBody(route, "none", queryParams)

\* Faulty variant of appendPairs: a value already in the list is not added again.
RECURSIVE appendPairs_dedup(_, _, _)
appendPairs_dedup(args, key, values) ==
    IF values = <<>> THEN args
    ELSE IF \E i \in 1..Len(args) : i % 2 = 0 /\ args[i - 1] = key /\ args[i] = Head(values)
    THEN appendPairs_dedup(args, key, Tail(values))
    ELSE appendPairs_dedup(args \o <<key, Head(values)>>, key, Tail(values))

\* for _, v := range values { args = append(args, key, string(v)) }
RECURSIVE appendPairs(_, _, _)
appendPairs(args, key, values) ==
    IF values = <<>> THEN args
    ELSE appendPairs(args \o <<key, Head(values)>>, key, Tail(values))

\* PostRelease's query parameter list.
PostReleaseArgs(s) ==
    appendPairs(appendPairs(<<"image", s.ImageSpec, "kind", s.Kind>>,
                            "service", s.ServiceSpecs),
                "exclude", s.Excludes)

----------------------------------------------------------------------------
(* The state machine *)

\* What the transport can do with a request.
TransportOutcomes ==
    {[fail |-> TRUE, StatusCode |-> 0, Status |-> "", data |-> <<>>, readErr |-> FALSE]}
    \cup {[fail |-> FALSE, StatusCode |-> sc, Status |-> StatusText(sc), data |-> b,
           readErr |-> re] : sc \in StatusCodes, b \in Bodies, re \in BOOLEAN}

ReleaseJobParams ==
    [ImageSpec : ImageSpecs, Kind : Kinds,
     ServiceSpecs : SeqsUpTo(Ids, MaxSpecs), Excludes : SeqsUpTo(Ids, MaxExcludes)]

Init ==
    /\ client \in {NewClient("transport", r, "http://flux", "tok") : r \in Routers}
    /\ pc = "idle"
    /\ call = NoCall
    /\ req = NoReq
    /\ tresp = NoResp
    /\ ex = NoEx
    /\ events = <<>>
    /\ destVal = ZeroValue
    /\ result = NoErr
    /\ earlier = FALSE

\* A public operation enters its primitive with arguments a; the primitive runs
\* until it returns early or has the request ready for executeRequest.
Enter(op, a, input) ==
    /\ pc = "idle"
    /\ \E reqOK \in BOOLEAN :
         LET r == IF a.prim = "get"
                  THEN get_request(client, a.route, a.params, reqOK)
                  ELSE postWithResp_request(client, a.route, a.body, a.params, reqOK)
         IN /\ client' = r.c
            /\ req' = r.req
            /\ events' = r.ev
            /\ result' = r.err
            /\ pc' = IF r.err = NoErr THEN "sending" ELSE "done"
    /\ call' = [op |-> op, prim |-> a.prim, dest |-> a.dest, route |-> a.route,
                body |-> a.body, params |-> a.params, input |-> input]
    /\ destVal' = ZeroValue
    /\ tresp' = NoResp
    /\ ex' = NoEx
    /\ UNCHANGED earlier

ListServices == \E namespace \in Ids :
    Enter("ListServices", get("ListServices", <<"namespace", namespace>>), NoInput)

ListImages == \E sp \in Ids :
    Enter("ListImages", get("ListImages", <<"service", sp>>), NoInput)

PostRelease == \E s \in ReleaseJobParams :
    Enter("PostRelease", postWithResp(TRUE, "PostRelease", "none", PostReleaseArgs(s)), s)

GetRelease == \E id \in Ids :
    Enter("GetRelease", get("GetRelease", <<"id", id>>), NoInput)

Automate == \E id \in Ids :
    Enter("Automate", post("Automate", <<"service", id>>), NoInput)

Deautomate == \E id \in Ids :
    Enter("Deautomate", post("Deautomate", <<"service", id>>), NoInput)

Lock == \E id \in Ids :
    Enter("Lock", post("Lock", <<"service", id>>), NoInput)

Unlock == \E id \in Ids :
    Enter("Unlock", post("Unlock", <<"service", id>>), NoInput)

History == \E sp \in Ids :
    Enter("History", get("History", <<"service", sp>>), NoInput)

GetConfig == Enter("GetConfig", get("GetConfig", <<>>), NoInput)

\* config is a value json.Marshal accepts ("ok") or rejects ("bad").
SetConfig == \E config \in {"ok", "bad"} :
    Enter("SetConfig", postWithBody("SetConfig", config, <<>>), NoInput)

GenerateDeployKey == Enter("GenerateDeployKey", post("GenerateDeployKeys", <<>>), NoInput)

Status == Enter("Status", get("Status", <<>>), NoInput)

\* c.executeRequest(req)
ExecuteRequest ==
    /\ pc = "sending"
    /\ \E o \in TransportOutcomes :
         LET r == executeRequest(client, req, o)
         IN /\ client' = r.c
            /\ tresp' = r.tresp
            /\ ex' = [resp |-> r.resp, err |-> r.err]
            /\ events' = events \o r.ev
    /\ pc' = "received"
    /\ UNCHANGED <<call, req, destVal, result, earlier>>

\* get returns to the public operation, which returns (res, err).
GetReturn ==
    /\ pc = "received"
    /\ call.prim = "get"
    /\ LET r == get_response(client, ex, tresp, destVal)
       IN /\ client' = r.c
          /\ tresp' = r.tresp
          /\ destVal' = r.dest
          /\ result' = r.err
          /\ events' = events \o r.ev
    /\ pc' = "done"
    /\ UNCHANGED <<call, req, ex, earlier>>

\* postWithResp returns to post / postWithBody / PostRelease.
PostReturn ==
    /\ pc = "received"
    /\ call.prim = "post"
    /\ LET r == postWithResp_response(client, ex, tresp, destVal, call.dest)
       IN /\ client' = r.c
          /\ tresp' = r.tresp
          /\ destVal' = r.dest
          /\ result' = r.err
          /\ events' = events \o r.ev
    /\ pc' = "done"
    /\ UNCHANGED <<call, req, ex, earlier>>

\* The public operation has returned; its caller drops the request, the response
\* and the results, and the client is ready for its next call.
Return ==
    /\ pc = "done"
    /\ pc' = "idle"
    /\ call' = NoCall
    /\ req' = NoReq
    /\ tresp' = NoResp
    /\ ex' = NoEx
    /\ events' = <<>>
    /\ destVal' = ZeroValue
    /\ result' = NoErr
    /\ earlier' = TRUE
    /\ UNCHANGED client

Next ==
    \/ ListServices \/ ListImages \/ PostRelease \/ GetRelease
    \/ Automate \/ Deautomate \/ Lock \/ Unlock
    \/ History \/ GetConfig \/ SetConfig \/ GenerateDeployKey \/ Status
    \/ ExecuteRequest \/ GetReturn \/ PostReturn \/ Return

Spec == Init /\ [][Next]_vars

----------------------------------------------------------------------------
(* Properties *)

Positions(e) == {i \in 1..Len(events) : events[i] = e}

Spaces(n) == [i \in 1..n |-> " "]
Ones(n) == [i \in 1..n |-> "1"]

\* b is s without its leading and trailing white space.
IsTrimOf(b, s) ==
    /\ b = <<>> \/ (b[1] # " " /\ b[Len(b)] # " ")
    /\ \E i \in 0..Len(s), j \in 0..Len(s) : s = Spaces(i) \o b \o Spaces(j)

\* s is one JSON value (here a number) with optional white space around it.
ValidJSON(s) ==
    \E i \in 0..Len(s), k \in 1..(Len(s) + 1), j \in 0..Len(s) :
        s = Spaces(i) \o Ones(k) \o Spaces(j)

\* The context message of the phase in which an error of this kind arises.
PhaseContext(kind) ==
    CASE kind = "route" -> "constructing URL"
      [] kind = "encode" -> "encoding request body"
      [] kind = "request" -> "constructing request"
      [] kind \in {"transport", "APIError"} -> "executing HTTP request"
      [] OTHER -> "decoding response from server"

\* C1: when a call in which the transport returned a response has returned, the
\* response body has been closed, whatever the status and whatever the decoding did.
C1_BodyClosedOnEveryExit ==
    (pc = "done" /\ tresp.present) => tresp.closed

\* C2: a response with status 200 is passed on for decoding; any other status
\* makes the call fail with an APIError holding the response's StatusCode and
\* Status and the trimmed body, with no decoding and the destination unchanged.
C2_StatusClassification ==
    (pc \in {"received", "done"} /\ tresp.present) =>
        IF tresp.StatusCode = 200
        THEN ex.resp /\ ex.err = NoErr
        ELSE /\ ~ex.resp
             /\ ex.err.cause.kind = "APIError"
             /\ ex.err.cause.StatusCode = tresp.StatusCode
             /\ ex.err.cause.Status = tresp.Status
             /\ IsTrimOf(ex.err.cause.Body, tresp.data)
             /\ Positions("Decode") = {}
             /\ destVal = ZeroValue
             /\ pc = "done" => (result # NoErr /\ result.cause = ex.err.cause)

C2_Witness ==
    /\ pc = "done"
    /\ tresp.present /\ tresp.StatusCode = 500 /\ tresp.data = <<" ", "x">>
    /\ result.cause.kind = "APIError" /\ result.cause.Body = <<"x">>

\* C3: on status 200 with an empty body get fails with a decode error and
\* postWithResp succeeds with the destination unchanged; on a non-empty body
\* both deserialize it.
C3_EmptyBodyAsymmetry ==
    (pc = "done" /\ tresp.present /\ tresp.StatusCode = 200 /\ ~tresp.readErr) =>
        /\ (tresp.data = <<>> /\ call.prim = "get") =>
              /\ result.ctx = <<"decoding response from server">>
              /\ result.cause.kind = "EOF"
              /\ destVal = ZeroValue
        /\ (tresp.data = <<>> /\ call.prim = "post") =>
              /\ result = NoErr
              /\ destVal = ZeroValue
              /\ Positions("Decode") = {}
        /\ tresp.data # <<>> => Positions("Decode") # {}

C3_Witness ==
    /\ pc = "done"
    /\ tresp.present /\ tresp.StatusCode = 200 /\ ~tresp.readErr /\ tresp.data = <<>>
    /\ call.prim = "post" /\ call.dest
    /\ result = NoErr

\* C4: the credential is attached to a request exactly once, before the
\* transport is invoked, and never afterwards.
C4_CredentialOnceBeforeDo ==
    /\ Cardinality(Positions("Set")) <= 1
    /\ \A d \in Positions("Do") : \E a \in Positions("Set") : a < d
    /\ (pc = "sending" \/ Positions("Do") # {}) =>
          (Cardinality(Positions("Set")) = 1 /\ req.auth = client.token)

C4_Witness ==
    pc = "received" /\ events = <<"Set", "Do">> /\ req.auth = "tok"

\* C5: a call invokes the transport at most once, and a transport failure, a
\* non-200 status or a decode failure is returned to the caller as an error.
C5_NoRetry ==
    /\ Cardinality(Positions("Do")) <= 1
    /\ pc = "done" =>
          /\ (Positions("Do") # {} /\ ~tresp.present) => result.cause.kind = "transport"
          /\ (tresp.present /\ tresp.StatusCode # 200) => result.cause.kind = "APIError"
          /\ (tresp.present /\ tresp.StatusCode = 200 /\ tresp.data # <<>>
                /\ \A i \in 1..Len(tresp.data) : tresp.data[i] # "1") => result # NoErr

C5_Witness ==
    /\ pc = "done"
    /\ Positions("Do") # {} /\ ~tresp.present
    /\ result.cause.kind = "transport"

\* C6: when the route cannot be resolved or the body cannot be serialized the
\* call returns at once: no credential, no transport, destination unchanged;
\* and the URL error wins over the encoding error.
C6_EarlyFailure ==
    (call.op # "" /\ (call.route \notin client.router
                        \/ (call.prim = "post" /\ call.body = "bad"))) =>
        /\ pc = "done"
        /\ events = <<>>
        /\ req = NoReq
        /\ ~tresp.present
        /\ destVal = ZeroValue
        /\ result.ctx = IF call.route \notin client.router
                        THEN <<"constructing URL">> ELSE <<"encoding request body">>
        /\ result.cause.kind = IF call.route \notin client.router THEN "route" ELSE "encode"

C6_Witness ==
    /\ pc = "done"
    /\ call.op = "SetConfig" /\ call.body = "bad" /\ call.route \notin client.router
    /\ result.cause.kind = "route"

\* C7: every error a primitive returns carries exactly one context message,
\* the one of the phase that failed.
C7_OneContextLayer ==
    (pc = "done" /\ result # NoErr) =>
        /\ Len(result.ctx) = 1
        /\ result.ctx[1] = PhaseContext(result.cause.kind)

\* C8: no step of any operation changes the client's fields.
C8_ClientFieldsUnchanged == [][client' = client]_vars

C8_Witness ==
    earlier /\ pc = "done" /\ tresp.present /\ tresp.closed

\* C9: a POST that discards the response still deserializes a non-empty 200
\* body: it succeeds on an empty or valid body and fails with a decode error on
\* a non-empty invalid one.
C9_DiscardingPostStillDecodes ==
    (pc = "done" /\ call.prim = "post" /\ ~call.dest
        /\ tresp.present /\ tresp.StatusCode = 200 /\ ~tresp.readErr) =>
        /\ destVal = ZeroValue
        /\ IF tresp.data = <<>>
           THEN result = NoErr
           ELSE /\ Positions("Decode") # {}
                /\ (result = NoErr) <=> ValidJSON(tresp.data)
                /\ ~ValidJSON(tresp.data) =>
                      /\ result.ctx = <<"decoding response from server">>
                      /\ result.cause.kind = "syntax"

C9_Witness ==
    /\ pc = "done"
    /\ call.op = "Lock" /\ ~call.dest
    /\ tresp.present /\ tresp.StatusCode = 200 /\ ~tresp.readErr /\ tresp.data = <<"x">>
    /\ result.cause.kind = "syntax"

\* C10: PostRelease hands the resolver image, kind, then one service pair per
\* ServiceSpecs element and one exclude pair per Excludes element, in input
\* order and with repeats kept.
C10_PostReleaseArgs ==
    call.op = "PostRelease" =>
        LET s == call.input
            a == call.params
            n == Len(s.ServiceSpecs)
            m == Len(s.Excludes)
        IN /\ Len(a) = 4 + 2 * n + 2 * m
           /\ a[1] = "image" /\ a[2] = s.ImageSpec
           /\ a[3] = "kind" /\ a[4] = s.Kind
           /\ \A i \in 1..n : a[3 + 2 * i] = "service" /\ a[4 + 2 * i] = s.ServiceSpecs[i]
           /\ \A j \in 1..m : /\ a[3 + 2 * n + 2 * j] = "exclude"
                              /\ a[4 + 2 * n + 2 * j] = s.Excludes[j]

C10_Witness ==
    /\ call.op = "PostRelease"
    /\ call.input.ServiceSpecs = <<"a", "a">> /\ call.input.Excludes = <<"a">>
    /\ Len(call.params) = 10

====
